---- MODULE Spec2Model ----
(***************************************************************************)
(* A model of program_admin/util.py: the helper functions of the oracle    *)
(* program administrator.  Every function of util.py is an operator that   *)
(* computes what the Python computes; a call is a small state machine: the *)
(* arguments are drawn by Init, the action applies the function and        *)
(* records the outcome (a returned value or a raised exception).           *)
(***************************************************************************)
EXTENDS Integers, Sequences, FiniteSets, TLC

VARIABLES
    pc,     \* "call": the function is about to run; "await": it is suspended
            \* on the RPC client; "return": it has returned or raised
    fn,     \* the name of the function being called
    args,   \* its arguments, a record with the parameter names of the source
    rpc,    \* the RPC collaborator: the cluster's latest blockhash and the
            \* response in flight (only recent_blockhash talks to it)
    locals, \* the local variables of a function whose loop is followed
            \* iteration by iteration
    ret     \* the outcome of the call

vars == <<pc, fn, args, rpc, locals, ret>>

----------------------------------------------------------------------------
(* Bounds of the model *)

\* public keys are 1..NumKeys; 0 is PublicKey(0)
NumKeys == 3
\* longest list of mapping accounts handed to sort_mapping_account_keys
MaxAccounts == 3
\* longest candidate signer pool handed to get_actual_signers
MaxSigners == 2
\* most instructions in a transaction
MaxInstructions == 2
\* most accounts in an instruction
MaxInstructionKeys == 1
\* most entries in a product's metadata
MaxEntries == 2
\* the blockhashes of the cluster are the numbers 0..MaxHash
MaxHash == 60

----------------------------------------------------------------------------
(* Python values *)

\* None, where a key is expected
None == -1

\* PublicKey(0): the all-zero key that ends the mapping list
ZeroKey == 0

Keys == 1..NumKeys

\* the truth value of an Optional[PublicKey]: PublicKey defines neither
\* __bool__ nor __len__, so every key (the zero key too) is true, None is not
Truthy(key) == key # None

\* a call that has not finished
Pending == [tag |-> "pending"]

Return(value) == [tag |-> "return", value |-> value]

Raise(error, message) == [tag |-> "raise", error |-> error, message |-> message]

\* the state of the RPC collaborator in the calls that never use it
NoRpc == [latest |-> <<>>, response |-> <<>>]

\* the locals of the calls that are made in one step
NoLocals == <<>>

\* a dict is a function on the set of its keys
EmptyDict == [k \in {} |-> None]

DictSet(d, k, v) == [x \in (DOMAIN d) \cup {k} |-> IF x = k THEN v ELSE d[x]]

\* dict.get(k): None for a missing key
DictGet(d, k) == IF k \in DOMAIN d THEN d[k] ELSE None

----------------------------------------------------------------------------
(* sort_mapping_account_keys *)

\* a PythMappingAccount, cut to the fields the function reads
MappingAccount(key, next) == [public_key |-> key, next_mapping_account_key |-> next]

\* ScanAccounts with the test of the next key forgotten: the last account
\* seen is taken for the tail
RECURSIVE ScanAccountsNoTest(_, _, _, _)
ScanAccountsNoTest(accounts, i, previous_keys, last_key) ==
    IF i > Len(accounts)
    THEN [previous_keys |-> previous_keys, last_key |-> last_key]
    ELSE LET this_key == accounts[i].public_key
             next_key == accounts[i].next_mapping_account_key
         IN  ScanAccountsNoTest(accounts, i + 1,
                                DictSet(previous_keys, next_key, this_key),
                                this_key)

\* the first loop: previous_keys and last_key after accounts[i..]
RECURSIVE ScanAccounts(_, _, _, _)
ScanAccounts(accounts, i, previous_keys, last_key) ==
    IF i > Len(accounts)
    THEN [previous_keys |-> previous_keys, last_key |-> last_key]
    ELSE LET this_key == accounts[i].public_key
             next_key == accounts[i].next_mapping_account_key
         IN  ScanAccounts(accounts, i + 1,
                          DictSet(previous_keys, next_key, this_key),
                          IF next_key = ZeroKey THEN this_key ELSE last_key)

\* WalkBack that appends the visited key where the source inserts it at 0
RECURSIVE WalkBackAppend(_, _, _, _)
WalkBackAppend(n, previous_keys, sorted_keys, current) ==
    IF n = Len(sorted_keys)
    THEN sorted_keys
    ELSE WalkBackAppend(n, previous_keys, Append(sorted_keys, current),
                        IF Truthy(DictGet(previous_keys, current))
                        THEN previous_keys[current]
                        ELSE current)

\* the second loop: prepend current until as many keys as accounts are out
RECURSIVE WalkBack(_, _, _, _)
WalkBack(n, previous_keys, sorted_keys, current) ==
    IF n = Len(sorted_keys)
    THEN sorted_keys
    ELSE WalkBack(n, previous_keys, <<current>> \o sorted_keys,
                  IF Truthy(DictGet(previous_keys, current))
                  THEN previous_keys[current]
                  ELSE current)

sort_mapping_account_keys(accounts) ==
    IF accounts = <<>>
    THEN Return(<<>>)
    ELSE LET scan == ScanAccounts(accounts, 1, EmptyDict, None)
         IN  IF ~Truthy(scan.last_key)
             THEN Raise("RuntimeError", "The linked list has no end")
             ELSE Return(WalkBack(Len(accounts), scan.previous_keys, <<>>,
                                  scan.last_key))

\* the lists of mapping accounts a fetch can return: any number of accounts
\* up to MaxAccounts, in any order, each account once (an account is fetched
\* by its key), each next key any key or the zero key
AccountLists ==
    UNION { { a \in [1..n -> { MappingAccount(k, x) : k \in Keys, x \in {ZeroKey} \cup Keys }] :
                \A i, j \in 1..n : i # j => a[i].public_key # a[j].public_key }
            : n \in 0..MaxAccounts }

InitSort ==
    /\ pc = "call"
    /\ fn = "sort_mapping_account_keys"
    /\ args \in { [accounts |-> a] : a \in AccountLists }
    /\ rpc = NoRpc
    /\ locals = NoLocals
    /\ ret = Pending

SortMappingAccountKeys ==
    /\ pc = "call"
    /\ fn = "sort_mapping_account_keys"
    /\ ret' = sort_mapping_account_keys(args.accounts)
    /\ pc' = "return"
    /\ UNCHANGED <<fn, args, rpc, locals>>

SpecSort == InitSort /\ [][SortMappingAccountKeys]_vars

----------------------------------------------------------------------------
(* What a list of mapping accounts is, stated on the accounts themselves *)

KeysOf(accounts) == { accounts[i].public_key : i \in 1..Len(accounts) }

\* the positions of the tail markers: the accounts whose next key is zero
Tails(accounts) ==
    { i \in 1..Len(accounts) : accounts[i].next_mapping_account_key = ZeroKey }

\* the next key of the account with this key
NextOf(accounts, key) ==
    LET i == CHOOSE i \in 1..Len(accounts) : accounts[i].public_key = key
    IN  accounts[i].next_mapping_account_key

\* following next keys from key, the zero key is met within fuel steps
RECURSIVE ReachesEnd(_, _, _)
ReachesEnd(accounts, key, fuel) ==
    \/ key = ZeroKey
    \/ /\ fuel > 0
       /\ key \in KeysOf(accounts)
       /\ ReachesEnd(accounts, NextOf(accounts, key), fuel - 1)

\* one unbranched acyclic list of at least one account that ends in zero
ValidChain(accounts) ==
    /\ Len(accounts) >= 1
    /\ \A i, j \in 1..Len(accounts) :
          i # j => accounts[i].public_key # accounts[j].public_key
    /\ Cardinality(Tails(accounts)) = 1
    /\ \A i \in 1..Len(accounts) :
          LET next == accounts[i].next_mapping_account_key
          IN  next # ZeroKey =>
                 /\ next \in KeysOf(accounts) \ {accounts[i].public_key}
                 /\ \A j \in 1..Len(accounts) :
                       j # i => accounts[j].next_mapping_account_key # next
    /\ \A k \in KeysOf(accounts) : ReachesEnd(accounts, k, Len(accounts))

\* keys is the list in traversal order: the head first, each key followed by
\* its account's next key, the tail last, every account once
TraversalOrder(accounts, keys) ==
    /\ Len(keys) = Len(accounts)
    /\ { keys[i] : i \in 1..Len(keys) } = KeysOf(accounts)
    /\ \A i \in 1..Len(accounts) :
          accounts[i].next_mapping_account_key # keys[1]
    /\ \A i \in 1..(Len(keys) - 1) : NextOf(accounts, keys[i]) = keys[i + 1]
    /\ NextOf(accounts, keys[Len(keys)]) = ZeroKey

Sorted == pc = "return" /\ fn = "sort_mapping_account_keys"

----------------------------------------------------------------------------
(* Claims about sort_mapping_account_keys *)

\* C1: for every valid mapping-account chain of N >= 1 accounts, given in any
\* order, sort_mapping_account_keys returns the N keys in traversal order:
\* head first, each key followed by its account's next key, tail last.
C1_SortReturnsTraversalOrder ==
    (Sorted /\ ValidChain(args.accounts)) =>
        /\ ret.tag = "return"
        /\ TraversalOrder(args.accounts, ret.value)

\* the chain 1 -> 2 -> 3 -> zero given as [3, 1, 2] has come back as [1, 2, 3]
C1_Witness ==
    /\ Sorted
    /\ args.accounts = << MappingAccount(3, ZeroKey), MappingAccount(1, 2),
                          MappingAccount(2, 3) >>
    /\ ret = Return(<<1, 2, 3>>)

\* C2: for every non-empty list in which no account has the zero key as its
\* next key, sort_mapping_account_keys raises "The linked list has no end"
\* and returns nothing.
C2_NoEndRaises ==
    (Sorted /\ args.accounts # <<>> /\ Tails(args.accounts) = {}) =>
        ret = Raise("RuntimeError", "The linked list has no end")

\* the cycle 1 -> 2 -> 1 has been refused
C2_Witness ==
    /\ Sorted
    /\ args.accounts = << MappingAccount(1, 2), MappingAccount(2, 1) >>
    /\ ret.tag = "raise"

\* C3: for every list with two or more tail markers, sort_mapping_account_keys
\* raises instead of returning a key sequence.
C3_TwoTailsRaise ==
    (Sorted /\ Cardinality(Tails(args.accounts)) >= 2) => ret.tag = "raise"

\* C4: when there is one tail marker but the accounts are not one chain (a
\* fork, a cycle beside the list, a dangling next key: the backward walk runs
\* out of predecessors before N keys are out), sort_mapping_account_keys
\* raises; it returns no sequence that is short, omits an account or repeats
\* a key.
C4_BrokenListRaises ==
    (Sorted /\ Cardinality(Tails(args.accounts)) = 1
            /\ ~ValidChain(args.accounts)) =>
        ret.tag = "raise"

----------------------------------------------------------------------------
(* apply_overrides *)

\* the symbols of the reference permissions, and one more that only an
\* override can name
Symbols == {"BTC/USD", "ETH/USD"}

OverrideSymbols == Symbols \cup {"SOL/USD"}

AccountTypes == {"price", "product"}

\* the networks the overrides file can have entries for; "devnet" has none
OverrideNetworks == {"mainnet", "testnet"}

Networks == OverrideNetworks \cup {"devnet"}

PublisherLists == { <<>>, <<"pub1", "pub2">> }

\* every dict with keys among keys and values among values
Dicts(keys, values) == UNION { [d -> values] : d \in SUBSET keys }

\* the permissions of one symbol: account type -> publishers ("price" alone,
\* both types, or none at all)
SymbolPermissions ==
    { p \in Dicts(AccountTypes, PublisherLists) : DOMAIN p # {"product"} }

ReferencePermissions == Dicts(Symbols, SymbolPermissions)

ReferenceOverrides == Dicts(OverrideNetworks, Dicts(OverrideSymbols, BOOLEAN))

\* apply_overrides that revokes on any override entry, true or false
apply_overrides_any_entry(ref_permissions, ref_overrides, network) ==
    LET network_overrides == IF network \in DOMAIN ref_overrides
                             THEN ref_overrides[network]
                             ELSE EmptyDict
    IN  [key \in DOMAIN ref_permissions |->
            IF key \in DOMAIN network_overrides
            THEN [k \in DOMAIN ref_permissions[key] |-> <<>>]
            ELSE ref_permissions[key]]

\* apply_overrides that empties the revoked symbol's entry, account types and
\* all
apply_overrides_drop_types(ref_permissions, ref_overrides, network) ==
    LET network_overrides == IF network \in DOMAIN ref_overrides
                             THEN ref_overrides[network]
                             ELSE EmptyDict
    IN  [key \in DOMAIN ref_permissions |->
            IF key \in DOMAIN network_overrides /\ ~network_overrides[key]
            THEN EmptyDict
            ELSE ref_permissions[key]]

\* network_overrides is ref_overrides.get(network, {}); the loop gives every
\* key of ref_permissions one entry of the new dict
apply_overrides(ref_permissions, ref_overrides, network) ==
    LET network_overrides == IF network \in DOMAIN ref_overrides
                             THEN ref_overrides[network]
                             ELSE EmptyDict
    IN  [key \in DOMAIN ref_permissions |->
            IF key \in DOMAIN network_overrides /\ ~network_overrides[key]
            THEN [k \in DOMAIN ref_permissions[key] |-> <<>>]
            ELSE ref_permissions[key]]

InitOverrides ==
    /\ pc = "call"
    /\ fn = "apply_overrides"
    /\ args \in [ref_permissions : ReferencePermissions,
                 ref_overrides : ReferenceOverrides,
                 network : Networks]
    /\ rpc = NoRpc
    /\ locals = NoLocals
    /\ ret = Pending

ApplyOverrides ==
    /\ pc = "call"
    /\ fn = "apply_overrides"
    /\ ret' = Return(apply_overrides(args.ref_permissions, args.ref_overrides,
                                     args.network))
    /\ pc' = "return"
    /\ UNCHANGED <<fn, args, rpc, locals>>

SpecOverrides == InitOverrides /\ [][ApplyOverrides]_vars

Applied == pc = "return" /\ fn = "apply_overrides"

\* the override of this symbol on the network of the call is a revoke
Revoked(symbol) ==
    /\ args.network \in DOMAIN args.ref_overrides
    /\ symbol \in DOMAIN args.ref_overrides[args.network]
    /\ args.ref_overrides[args.network][symbol] = FALSE

\* the result keeps the symbol with its account types, each without publishers
Emptied(symbol) ==
    /\ symbol \in DOMAIN ret.value
    /\ DOMAIN ret.value[symbol] = DOMAIN args.ref_permissions[symbol]
    /\ \A t \in DOMAIN ret.value[symbol] : ret.value[symbol][t] = <<>>

\* the result has the symbol's entry as the reference has it
PassedThrough(symbol) ==
    /\ symbol \in DOMAIN ret.value
    /\ ret.value[symbol] = args.ref_permissions[symbol]

\* C5 as stated: if overrides[network][S] is present and false, the result
\* keeps S with the account types of its reference entry, each with an empty
\* publisher list, and every other symbol's entry is identical to the input's.
C5_RevokeLeavesAllOthers ==
    Applied =>
        \A s \in DOMAIN args.ref_permissions :
            Revoked(s) =>
                /\ Emptied(s)
                /\ \A o \in DOMAIN args.ref_permissions \ {s} : PassedThrough(o)

\* C5 as amended: if overrides[network][S] is present and false, the result
\* keeps S with the account types of its reference entry, each with an empty
\* publisher list, and every other symbol that is not itself revoked on that
\* network has an entry identical to the input's.
C5_RevokeEmptiesSymbol ==
    Applied =>
        \A s \in DOMAIN args.ref_permissions :
            Revoked(s) =>
                /\ Emptied(s)
                /\ \A o \in DOMAIN args.ref_permissions \ {s} :
                      ~Revoked(o) => PassedThrough(o)

\* BTC/USD is revoked on mainnet and has lost its publishers, not its "price"
\* key; ETH/USD has kept its own
C5_Witness ==
    /\ Applied
    /\ args.network = "mainnet"
    /\ args.ref_permissions = [s \in Symbols |-> [t \in {"price"} |-> <<"pub1", "pub2">>]]
    /\ args.ref_overrides = [n \in {"mainnet"} |-> [s \in {"BTC/USD"} |-> FALSE]]
    /\ ret.value["BTC/USD"] = [t \in {"price"} |-> <<>>]
    /\ ret.value["ETH/USD"] = [t \in {"price"} |-> <<"pub1", "pub2">>]

\* C6: where no revoke applies apply_overrides passes the reference through:
\* for a network without overrides the result is the reference permissions;
\* for a known network every symbol absent from its overrides or mapped to
\* true is unchanged; the result has exactly the symbols of the reference.
C6_PassThrough ==
    Applied =>
        /\ DOMAIN ret.value = DOMAIN args.ref_permissions
        /\ args.network \notin DOMAIN args.ref_overrides =>
              ret.value = args.ref_permissions
        /\ args.network \in DOMAIN args.ref_overrides =>
              \A s \in DOMAIN args.ref_permissions :
                  (\/ s \notin DOMAIN args.ref_overrides[args.network]
                   \/ args.ref_overrides[args.network][s] = TRUE)
                      => PassedThrough(s)

\* on testnet BTC/USD is mapped to true, ETH/USD has no override and SOL/USD,
\* which the reference does not have, is revoked: the reference comes back
C6_Witness ==
    /\ Applied
    /\ args.network = "testnet"
    /\ DOMAIN args.ref_permissions = Symbols
    /\ args.ref_permissions["BTC/USD"] = [t \in {"price"} |-> <<"pub1", "pub2">>]
    /\ args.ref_overrides =
          [n \in {"testnet"} |-> [s \in {"BTC/USD", "SOL/USD"} |-> s = "BTC/USD"]]
    /\ ret.value = args.ref_permissions

----------------------------------------------------------------------------
(* get_actual_signers *)

\* the public keys of the keypairs a pool can hold
SignerKeys == {"funding", "mapping"}

\* the public keys an instruction can name: those, and one nobody holds
AccountKeys == SignerKeys \cup {"price"}

\* a Keypair, cut to the property the function reads
Keypair(key) == [public_key |-> key]

\* an AccountMeta of an instruction
AccountMeta(key, signer) == [pubkey |-> key, is_signer |-> signer]

\* all lists of at most n elements of S
SeqsUpTo(S, n) == UNION { [1..m -> S] : m \in 0..n }

SignerPools == SeqsUpTo({ Keypair(k) : k \in SignerKeys }, MaxSigners)

Instructions ==
    { [keys |-> ks] :
        ks \in SeqsUpTo({ AccountMeta(k, b) : k \in AccountKeys, b \in BOOLEAN },
                        MaxInstructionKeys) }

Transactions ==
    { [instructions |-> is] : is \in SeqsUpTo(Instructions, MaxInstructions) }

\* any(... for account in instruction.keys), with the is_signer test left out
InstructionNamesSigner(signer, instruction) ==
    \E i \in 1..Len(instruction.keys) :
        signer.public_key = instruction.keys[i].pubkey

\* any(signer.public_key == account.pubkey and account.is_signer
\*     for account in instruction.keys)
InstructionHasSigner(signer, instruction) ==
    \E i \in 1..Len(instruction.keys) :
        /\ signer.public_key = instruction.keys[i].pubkey
        /\ instruction.keys[i].is_signer

\* the loop over signers from position i on, actual_signers being the list
\* built so far
RECURSIVE CollectSigners(_, _, _, _)
CollectSigners(signers, i, transaction, actual_signers) ==
    IF i > Len(signers)
    THEN actual_signers
    ELSE LET signer == signers[i]
             instruction_has_signer ==
                 [j \in 1..Len(transaction.instructions) |->
                     InstructionHasSigner(signer, transaction.instructions[j])]
         IN  CollectSigners(signers, i + 1, transaction,
                 IF \E j \in DOMAIN instruction_has_signer : instruction_has_signer[j]
                 THEN Append(actual_signers, signer)
                 ELSE actual_signers)

get_actual_signers(signers, transaction) ==
    CollectSigners(signers, 1, transaction, <<>>)

InitSigners ==
    /\ pc = "call"
    /\ fn = "get_actual_signers"
    /\ args \in [signers : SignerPools, transaction : Transactions]
    /\ rpc = NoRpc
    /\ locals = NoLocals
    /\ ret = Pending

GetActualSigners ==
    /\ pc = "call"
    /\ fn = "get_actual_signers"
    /\ ret' = Return(get_actual_signers(args.signers, args.transaction))
    /\ pc' = "return"
    /\ UNCHANGED <<fn, args, rpc, locals>>

SpecSigners == InitSigners /\ [][GetActualSigners]_vars

Collected == pc = "return" /\ fn = "get_actual_signers"

\* the key is an account with is_signer set in some instruction of the
\* transaction
SigningAccount(key, transaction) ==
    \E j \in 1..Len(transaction.instructions) :
        \E i \in 1..Len(transaction.instructions[j].keys) :
            /\ transaction.instructions[j].keys[i].pubkey = key
            /\ transaction.instructions[j].keys[i].is_signer

\* sub is the subsequence of pool at exactly the positions in positions, in
\* the order of pool
SubsequenceAt(sub, pool, positions) ==
    \E f \in [1..Len(sub) -> 1..Len(pool)] :
        /\ \A a, b \in 1..Len(sub) : a < b => f[a] < f[b]
        /\ { f[a] : a \in 1..Len(sub) } = positions
        /\ \A a \in 1..Len(sub) : sub[a] = pool[f[a]]

\* C7: get_actual_signers returns exactly the subsequence of the pool, in the
\* pool's order, of the keypairs whose public key is an account with
\* is_signer set in at least one instruction of the transaction: none that is
\* only a non-signer account or absent, and none that signs left out.
C7_ExactlyTheSigners ==
    Collected =>
        SubsequenceAt(ret.value, args.signers,
            { i \in 1..Len(args.signers) :
                SigningAccount(args.signers[i].public_key, args.transaction) })

\* the pool is [funding, mapping]; the transaction has mapping sign its first
\* instruction and names funding, unsigned, in its second: only mapping signs
C7_Witness ==
    /\ Collected
    /\ args.signers = << Keypair("funding"), Keypair("mapping") >>
    /\ args.transaction.instructions =
          << [keys |-> << AccountMeta("mapping", TRUE) >>],
             [keys |-> << AccountMeta("funding", FALSE) >>] >>
    /\ ret.value = << Keypair("mapping") >>

----------------------------------------------------------------------------
(* encode_product_metadata *)

\* the number of bytes a length is written in: to_bytes(1, ...)
LengthSize == 1

\* a str is the sequence of its code points; these have UTF-8 encodings of
\* 1, 2, 3 and 4 bytes, and the last is a lone surrogate, which has none
LetterA == 97
EAcute == 233
EuroSign == 8364
GrinningFace == 128512
LoneSurrogate == 55296

\* n times the code point c
Rep(c, n) == [i \in 1..n |-> c]

\* the longest field a length of LengthSize bytes can describe: 255 bytes
MaxFieldBytes == (256 ^ LengthSize) - 1

\* the strings of the metadata: the empty one, a short one with every
\* encoding width, a plain string of 256 bytes, a string of 128 characters
\* that takes 256 bytes, one of 128 that takes 255, and one that cannot be
\* encoded
Strings ==
    { <<>>,
      << LetterA, EAcute, EuroSign, GrinningFace >>,
      Rep(LetterA, MaxFieldBytes + 1),
      Rep(EAcute, (MaxFieldBytes + 1) \div 2),
      Rep(EAcute, MaxFieldBytes \div 2) \o << LetterA >>,
      << LoneSurrogate >> }

\* a Dict[str, str] in the order of its items(): no key twice
MetadataDicts ==
    { d \in SeqsUpTo([key : Strings, value : Strings], MaxEntries) :
        \A i, j \in 1..Len(d) : i # j => d[i].key # d[j].key }

IsSurrogate(c) == c >= 55296 /\ c <= 57343

\* the UTF-8 encoding of one code point
Utf8Char(c) ==
    IF c < 128 THEN << c >>
    ELSE IF c < 2048 THEN << 192 + (c \div 64), 128 + (c % 64) >>
    ELSE IF c < 65536
         THEN << 224 + (c \div 4096), 128 + ((c \div 64) % 64), 128 + (c % 64) >>
    ELSE << 240 + (c \div 262144), 128 + ((c \div 4096) % 64),
            128 + ((c \div 64) % 64), 128 + (c % 64) >>

\* the encodings of str[lo..hi] one after the other
RECURSIVE Utf8Slice(_, _, _)
Utf8Slice(str, lo, hi) ==
    IF lo > hi THEN <<>>
    ELSE IF lo = hi THEN Utf8Char(str[lo])
    ELSE LET mid == (lo + hi) \div 2
         IN  Utf8Slice(str, lo, mid) \o Utf8Slice(str, mid + 1, hi)

\* str.encode("utf8"): the bytes, or UnicodeEncodeError for a surrogate
StrEncode(str) ==
    IF \E i \in 1..Len(str) : IsSurrogate(str[i])
    THEN Raise("UnicodeEncodeError", "surrogates not allowed")
    ELSE Return(Utf8Slice(str, 1, Len(str)))

\* to_bytes that keeps the low byte of a length that does not fit
ToBytesWrap(n) == Return(<< n % 256 >>)

\* int.to_bytes(1, byteorder="little"): one byte, or OverflowError
ToBytes(n) ==
    IF n < 256 ^ LengthSize
    THEN Return(<< n >>)
    ELSE Raise("OverflowError", "int too big to convert")

\* the body of the loop with len(key) and len(value), the numbers of
\* characters, written for the lengths
EncodeEntryCharLen(buffer, key, value) ==
    LET key_bytes == StrEncode(key)
        key_len == ToBytes(Len(key))
        value_bytes == StrEncode(value)
        value_len == ToBytes(Len(value))
    IN  IF key_bytes.tag = "raise" THEN key_bytes
        ELSE IF key_len.tag = "raise" THEN key_len
        ELSE IF value_bytes.tag = "raise" THEN value_bytes
        ELSE IF value_len.tag = "raise" THEN value_len
        ELSE Return(buffer \o key_len.value \o key_bytes.value
                           \o value_len.value \o value_bytes.value)

\* the body of the loop: the four values in the order the source computes
\* them, the first exception ending the call
EncodeEntry(buffer, key, value) ==
    LET key_bytes == StrEncode(key)
        key_len == ToBytes(Len(key_bytes.value))
        value_bytes == StrEncode(value)
        value_len == ToBytes(Len(value_bytes.value))
    IN  IF key_bytes.tag = "raise" THEN key_bytes
        ELSE IF key_len.tag = "raise" THEN key_len
        ELSE IF value_bytes.tag = "raise" THEN value_bytes
        ELSE IF value_len.tag = "raise" THEN value_len
        ELSE Return(buffer \o key_len.value \o key_bytes.value
                           \o value_len.value \o value_bytes.value)

\* the loop over data.items() from item i on
RECURSIVE EncodeItems(_, _, _)
EncodeItems(data, i, buffer) ==
    IF i > Len(data) THEN Return(buffer)
    ELSE LET step == EncodeEntry(buffer, data[i].key, data[i].value)
         IN  IF step.tag = "raise" THEN step
             ELSE EncodeItems(data, i + 1, step.value)

encode_product_metadata(data) == EncodeItems(data, 1, <<>>)

InitMetadata ==
    /\ pc = "call"
    /\ fn = "encode_product_metadata"
    /\ args \in { [data |-> d] : d \in MetadataDicts }
    /\ rpc = NoRpc
    /\ locals = NoLocals
    /\ ret = Pending

EncodeProductMetadata ==
    /\ pc = "call"
    /\ fn = "encode_product_metadata"
    /\ ret' = encode_product_metadata(args.data)
    /\ pc' = "return"
    /\ UNCHANGED <<fn, args, rpc, locals>>

SpecMetadata == InitMetadata /\ [][EncodeProductMetadata]_vars

Encoded == pc = "return" /\ fn = "encode_product_metadata"

----------------------------------------------------------------------------
(* Reading the metadata back.  The reader of product metadata is not part   *)
(* of util.py; it is modelled from the format the specification gives:      *)
(* len(key) ++ key_bytes ++ len(value) ++ value_bytes per entry, each       *)
(* length one byte, the strings in UTF-8.                                   *)

\* the number of bytes the lead byte of a UTF-8 sequence announces
LeadWidth(b) == IF b < 128 THEN 1 ELSE IF b < 224 THEN 2 ELSE IF b < 240 THEN 3 ELSE 4

IsLead(b) == b < 128 \/ b >= 192

\* the code point of the UTF-8 sequence at bytes[j]
CodePointAt(bytes, j) ==
    LET w == LeadWidth(bytes[j])
        c(k) == bytes[j + k] - 128
    IN  IF w = 1 THEN bytes[j]
        ELSE IF w = 2 THEN (bytes[j] - 192) * 64 + c(1)
        ELSE IF w = 3 THEN (bytes[j] - 224) * 4096 + c(1) * 64 + c(2)
        ELSE (bytes[j] - 240) * 262144 + c(1) * 4096 + c(2) * 64 + c(3)

\* bytes.decode("utf8"): the str, or UnicodeDecodeError when the bytes are
\* not whole UTF-8 sequences
BytesDecode(bytes) ==
    LET starts == SelectSeq([j \in 1..Len(bytes) |-> j], LAMBDA j : IsLead(bytes[j]))
        end(k) == IF k = Len(starts) THEN Len(bytes) + 1 ELSE starts[k + 1]
        whole == /\ Len(bytes) > 0 => (Len(starts) > 0 /\ starts[1] = 1)
                 /\ \A k \in 1..Len(starts) :
                       end(k) - starts[k] = LeadWidth(bytes[starts[k]])
    IN  IF whole
        THEN Return([k \in 1..Len(starts) |-> CodePointAt(bytes, starts[k])])
        ELSE Raise("UnicodeDecodeError", "invalid utf-8")

\* the ordered mapping with key set to value: a new key goes last
MappingPut(entries, key, value) ==
    IF \E i \in 1..Len(entries) : entries[i].key = key
    THEN [i \in 1..Len(entries) |->
             IF entries[i].key = key THEN [key |-> key, value |-> value]
             ELSE entries[i]]
    ELSE Append(entries, [key |-> key, value |-> value])

\* the entries read from bytes[offset..], after those already read
RECURSIVE DecodeEntries(_, _, _)
DecodeEntries(bytes, offset, entries) ==
    IF offset > Len(bytes) THEN Return(entries)
    ELSE LET key_len == bytes[offset]
             value_offset == offset + 1 + key_len
         IN  IF value_offset > Len(bytes)
             THEN Raise("ValueError", "truncated metadata")
             ELSE LET value_len == bytes[value_offset]
                      next_offset == value_offset + 1 + value_len
                  IN  IF next_offset > Len(bytes) + 1
                      THEN Raise("ValueError", "truncated metadata")
                      ELSE LET key == BytesDecode(SubSeq(bytes, offset + 1, value_offset - 1))
                               value == BytesDecode(SubSeq(bytes, value_offset + 1, next_offset - 1))
                           IN  IF key.tag = "raise" THEN key
                               ELSE IF value.tag = "raise" THEN value
                               ELSE DecodeEntries(bytes, next_offset,
                                        MappingPut(entries, key.value, value.value))

decode_product_metadata(bytes) == DecodeEntries(bytes, 1, <<>>)

----------------------------------------------------------------------------
(* Claims about encode_product_metadata *)

\* the number of bytes of a code point in UTF-8
Utf8Width(c) == IF c < 128 THEN 1 ELSE IF c < 2048 THEN 2 ELSE IF c < 65536 THEN 3 ELSE 4

\* the number of bytes of str[lo..hi] in UTF-8
RECURSIVE Utf8Length(_, _, _)
Utf8Length(str, lo, hi) ==
    IF lo > hi THEN 0
    ELSE IF lo = hi THEN Utf8Width(str[lo])
    ELSE LET mid == (lo + hi) \div 2
         IN  Utf8Length(str, lo, mid) + Utf8Length(str, mid + 1, hi)

ByteLength(str) == Utf8Length(str, 1, Len(str))

\* every key and value has a UTF-8 encoding (no lone surrogate)
Encodable(data) ==
    \A i \in 1..Len(data) :
        /\ \A j \in 1..Len(data[i].key) : ~IsSurrogate(data[i].key[j])
        /\ \A j \in 1..Len(data[i].value) : ~IsSurrogate(data[i].value[j])

\* some key or value is longer than 255 bytes
Oversized(data) ==
    \E i \in 1..Len(data) :
        ByteLength(data[i].key) > 255 \/ ByteLength(data[i].value) > 255

\* C8: encode_product_metadata raises, and returns no bytes, for every
\* mapping with a key or a value longer than 255 bytes in UTF-8, and raises
\* for no mapping whose keys and values are all at most 255 bytes.  (The
\* mappings are those whose strings have a UTF-8 encoding at all.)
C8_OversizedRejected ==
    (Encoded /\ Encodable(args.data)) =>
        /\ Oversized(args.data) => ret.tag = "raise" /\ ret.error = "OverflowError"
        /\ ~Oversized(args.data) => ret.tag = "return"

\* a value of 128 two-byte characters, 256 bytes, has been refused, and so
\* the mapping, although its first entry is fine
C8_Witness ==
    /\ Encoded
    /\ args.data = << [key |-> <<>>, value |-> << LetterA, EAcute, EuroSign, GrinningFace >>],
                      [key |-> << LetterA, EAcute, EuroSign, GrinningFace >>,
                       value |-> Rep(EAcute, 128)] >>
    /\ ret.tag = "raise"

\* the bytes of entries i.. in the format: one length byte, the key's bytes,
\* one length byte, the value's bytes
RECURSIVE FormatFrom(_, _)
FormatFrom(data, i) ==
    IF i > Len(data) THEN <<>>
    ELSE LET key_bytes == Utf8Slice(data[i].key, 1, Len(data[i].key))
             value_bytes == Utf8Slice(data[i].value, 1, Len(data[i].value))
         IN  << Len(key_bytes) >> \o key_bytes \o << Len(value_bytes) >>
                 \o value_bytes \o FormatFrom(data, i + 1)

\* C9: for every ordered mapping whose keys and values are at most 255 bytes
\* each, encode_product_metadata returns the entries in mapping order, each
\* as len(key) ++ key_bytes ++ len(value) ++ value_bytes with one-byte
\* lengths, and reading the bytes back by that format gives the mapping
\* unchanged; the empty mapping gives no bytes.
C9_RoundTrip ==
    (Encoded /\ Encodable(args.data) /\ ~Oversized(args.data)) =>
        /\ ret.tag = "return"
        /\ ret.value = FormatFrom(args.data, 1)
        /\ \A i \in 1..Len(ret.value) : ret.value[i] \in 0..255
        /\ args.data = <<>> => ret.value = <<>>
        /\ decode_product_metadata(ret.value) = Return(args.data)

\* two entries, one with every encoding width and a value of 255 bytes, one
\* with an empty key and an empty value, have been written and read back
C9_Witness ==
    /\ Encoded
    /\ args.data = << [key |-> << LetterA, EAcute, EuroSign, GrinningFace >>,
                       value |-> Rep(EAcute, 127) \o << LetterA >>],
                      [key |-> <<>>, value |-> <<>>] >>
    /\ ret.tag = "return"
    /\ Len(ret.value) = 269
    /\ decode_product_metadata(ret.value) = Return(args.data)

----------------------------------------------------------------------------
(* recent_blockhash *)

\* a blockhash is modelled by its value as a number
Hashes == 0..MaxHash

\* nothing has been asked of the RPC node yet
NoResponse == [tag |-> "none"]

\* GetLatestBlockhashResp.value is None
NoValue == [tag |-> "None"]

\* GetLatestBlockhashResp.value is an RpcBlockhash
RpcBlockhash(hash) == [tag |-> "RpcBlockhash", blockhash |-> hash]

\* what awaiting client.get_latest_blockhash can give while the cluster is
\* at latest: a response with that blockhash, a response without a value,
\* or an exception of the client
Responses(latest) ==
    { [tag |-> "response", value |-> RpcBlockhash(latest)],
      [tag |-> "response", value |-> NoValue],
      [tag |-> "exception"] }

\* str(hash): the base-58 digits of the hash, most significant first, each
\* digit as its index in the alphabet
RECURSIVE Base58(_)
Base58(hash) ==
    IF hash < 58 THEN << hash >>
    ELSE Append(Base58(hash \div 58), hash % 58)

\* the function after the await, returning the blockhash of all zeros when
\* the response has no value
recent_blockhash_default(blockhash_response) ==
    IF blockhash_response.tag = "exception"
    THEN Raise("SolanaRpcException", "")
    ELSE IF blockhash_response.value = NoValue
    THEN Return(Base58(0))
    ELSE Return(Base58(blockhash_response.value.blockhash))

\* the function after the await: an exception of the client propagates, a
\* response without value raises, a value is returned as Blockhash(str(...))
recent_blockhash(blockhash_response) ==
    IF blockhash_response.tag = "exception"
    THEN Raise("SolanaRpcException", "")
    ELSE IF blockhash_response.value = NoValue
    THEN Raise("RuntimeError", "Failed to get recent blockhash")
    ELSE Return(Base58(blockhash_response.value.blockhash))

InitBlockhash ==
    /\ pc = "call"
    /\ fn = "recent_blockhash"
    /\ args = [client |-> "AsyncClient"]
    /\ rpc \in [latest : Hashes, response : {NoResponse}]
    /\ locals = NoLocals
    /\ ret = Pending

\* the cluster moves on to another block, whatever the caller is doing
NewBlock ==
    /\ fn = "recent_blockhash"
    /\ \E hash \in Hashes \ {rpc.latest} : rpc' = [rpc EXCEPT !.latest = hash]
    /\ UNCHANGED <<pc, fn, args, locals, ret>>

\* await client.get_latest_blockhash(commitment=Commitment("finalized"))
GetLatestBlockhash ==
    /\ pc = "call"
    /\ fn = "recent_blockhash"
    /\ \E response \in Responses(rpc.latest) :
          rpc' = [rpc EXCEPT !.response = response]
    /\ pc' = "await"
    /\ UNCHANGED <<fn, args, locals, ret>>

\* the rest of recent_blockhash, once the response is there
RecentBlockhash ==
    /\ pc = "await"
    /\ fn = "recent_blockhash"
    /\ ret' = recent_blockhash(rpc.response)
    /\ pc' = "return"
    /\ UNCHANGED <<fn, args, rpc, locals>>

NextBlockhash == NewBlock \/ GetLatestBlockhash \/ RecentBlockhash

SpecBlockhash == InitBlockhash /\ [][NextBlockhash]_vars

----------------------------------------------------------------------------
(* Claims about recent_blockhash *)

\* the number a list of base-58 digits stands for
RECURSIVE FromBase58(_)
FromBase58(digits) ==
    IF digits = <<>> THEN 0
    ELSE FromBase58(SubSeq(digits, 1, Len(digits) - 1)) * 58 + digits[Len(digits)]

\* C10: recent_blockhash returns a blockhash only when the response of
\* get_latest_blockhash carries a value, and then that value's blockhash;
\* when the value is missing it raises "Failed to get recent blockhash" and
\* returns no blockhash, neither a default nor an earlier one.
C10_BlockhashOnlyFromValue ==
    (fn = "recent_blockhash") =>
        /\ ret.tag = "return" =>
              /\ pc = "return"
              /\ rpc.response.tag = "response"
              /\ rpc.response.value # NoValue
              /\ FromBase58(ret.value) = rpc.response.value.blockhash
        /\ (pc = "return" /\ rpc.response.tag = "response"
                          /\ rpc.response.value = NoValue) =>
              ret = Raise("RuntimeError", "Failed to get recent blockhash")

\* a response without a value has come back and the call has raised
C10_Witness ==
    /\ pc = "return"
    /\ fn = "recent_blockhash"
    /\ rpc.response = [tag |-> "response", value |-> NoValue]
    /\ ret.tag = "raise"
    /\ ret.error = "RuntimeError"

----------------------------------------------------------------------------
(* sort_mapping_account_keys, its second loop one iteration at a time *)

\* the loop test with the last iteration lost
WalkContinuesShort(accounts, sorted_keys) ==
    Len(sorted_keys) < Len(accounts) - 1

\* while len(accounts) != len(sorted_keys)
WalkContinues(accounts, sorted_keys) ==
    Len(accounts) # Len(sorted_keys)

\* the function up to the second loop: the empty list returns at once, a list
\* without end raises, any other list enters the loop at its last key.
\* iterations counts the runs of the loop body.
SortEnter ==
    /\ pc = "call"
    /\ fn = "sort_mapping_account_keys"
    /\ IF args.accounts = <<>>
       THEN /\ ret' = Return(<<>>)
            /\ pc' = "return"
            /\ UNCHANGED locals
       ELSE LET scan == ScanAccounts(args.accounts, 1, EmptyDict, None)
            IN  IF ~Truthy(scan.last_key)
                THEN /\ ret' = Raise("RuntimeError", "The linked list has no end")
                     /\ pc' = "return"
                     /\ UNCHANGED locals
                ELSE /\ locals' = [previous_keys |-> scan.previous_keys,
                                   sorted_keys |-> <<>>,
                                   current |-> scan.last_key,
                                   iterations |-> 0]
                     /\ pc' = "walk"
                     /\ UNCHANGED ret
    /\ UNCHANGED <<fn, args, rpc>>

\* one run of the loop body
SortWalk ==
    /\ pc = "walk"
    /\ fn = "sort_mapping_account_keys"
    /\ WalkContinues(args.accounts, locals.sorted_keys)
    /\ locals' = [locals EXCEPT
                    !.sorted_keys = <<locals.current>> \o @,
                    !.current =
                        IF Truthy(DictGet(locals.previous_keys, locals.current))
                        THEN locals.previous_keys[locals.current]
                        ELSE @,
                    !.iterations = @ + 1]
    /\ UNCHANGED <<pc, fn, args, rpc, ret>>

\* the loop test fails: return sorted_keys
SortLeave ==
    /\ pc = "walk"
    /\ fn = "sort_mapping_account_keys"
    /\ ~WalkContinues(args.accounts, locals.sorted_keys)
    /\ ret' = Return(locals.sorted_keys)
    /\ pc' = "return"
    /\ UNCHANGED <<fn, args, rpc, locals>>

NextSortLoop == SortEnter \/ SortWalk \/ SortLeave

\* the interpreter runs the function on, one step after the other
SpecSortLoop == InitSort /\ [][NextSortLoop]_vars /\ WF_vars(NextSortLoop)

\* what holds of a call of sort_mapping_account_keys at every moment
SortLoopBounded ==
    /\ pc = "walk" =>
          /\ locals.iterations = Len(locals.sorted_keys)
          /\ locals.iterations <= Len(args.accounts)
    /\ pc = "return" =>
          /\ args.accounts = <<>> => ret = Return(<<>>)
          /\ ret.tag = "raise" =>
                ret = Raise("RuntimeError", "The linked list has no end")
          /\ ret.tag = "return" => Len(ret.value) = Len(args.accounts)
          /\ (ret.tag = "return" /\ args.accounts # <<>>) =>
                locals.iterations <= Len(args.accounts)

\* C12: sort_mapping_account_keys terminates on every list of accounts, with
\* cycles, forks or dangling next keys too: it raises the no-end error or
\* returns after at most N runs of the loop body, a returned list has as many
\* keys as there are accounts, and the empty list returns the empty list.
C12_SortTerminates ==
    /\ [](fn = "sort_mapping_account_keys" => SortLoopBounded)
    /\ <>(pc = "return")

\* the fork 1 -> 3, 2 -> 3, 3 -> zero has come back after three runs of the
\* loop body, as three keys
C12_Witness ==
    /\ pc = "return"
    /\ fn = "sort_mapping_account_keys"
    /\ args.accounts = << MappingAccount(1, 3), MappingAccount(2, 3),
                          MappingAccount(3, ZeroKey) >>
    /\ ret.tag = "return"
    /\ Len(ret.value) = 3
    /\ locals.iterations = 3

----------------------------------------------------------------------------
(* cli.py: the walk over the mapping list of restore_links and list_accounts *)

\* the keys of the mapping accounts of the program
MappingKeys == {1, 2, 3}

\* the keys of the product accounts of the program
ProductKeys == {11, 12}

\* the key of the price account of a product that has one
PriceKeyOf(product_key) == IF product_key = 11 THEN 21 ELSE 22

\* metadata["symbol"] of each product account
SymbolOf(product_key) == IF product_key = 11 THEN "BTC/USD" ELSE "ETH/USD"

\* the reference products file as its items(): jump symbol and symbol
ReferenceItems ==
    << [jump_symbol |-> "btc", symbol |-> "BTC/USD"],
       [jump_symbol |-> "eth", symbol |-> "ETH/USD"] >>

\* the reference products a run can be given: all of them, or the first only
ReferenceProducts == { ReferenceItems, SubSeq(ReferenceItems, 1, 1) }

\* the product accounts a fetch can return: product 11 has a first price
\* account, product 12 may have one
ProductAccounts ==
    { [p \in ProductKeys |->
          [first_price_account_key |-> IF p \in priced THEN PriceKeyOf(p) ELSE ZeroKey]]
      : priced \in { {11}, {11, 12} } }

\* the mapping accounts a fetch can return, in the order of their keys: any
\* accounts, each next key any key or the zero key, each product listed by at
\* most one account (holder[p] is the key of that account, or zero)
MappingAccountsWith(present, next, holder) ==
    LET key(i) == CHOOSE k \in present : Cardinality({ j \in present : j < k }) = i - 1
    IN  [i \in 1..Cardinality(present) |->
            [public_key |-> key(i),
             next_mapping_account_key |-> next[key(i)],
             product_account_keys |->
                 SelectSeq(<<11, 12>>, LAMBDA p : holder[p] = key(i))]]

ProgramAccounts ==
    { [mapping_accounts |-> MappingAccountsWith(present, next, holder),
       product_accounts |-> products]
      : present \in SUBSET MappingKeys,
        next \in [MappingKeys -> {ZeroKey} \cup MappingKeys],
        holder \in [ProductKeys -> {ZeroKey} \cup MappingKeys],
        products \in ProductAccounts }

\* str(n) of an f-string, for the numbers below ten
DecimalString(n) == << "0", "1", "2", "3", "4", "5", "6", "7", "8", "9" >>[n + 1]

\* f"{prefix}_{suffix}"
Alias(prefix, suffix) == [prefix |-> prefix, suffix |-> suffix]

\* a call restore_symlink(key, name, program_admin.key_dir)
Symlink(key, name) == [key |-> key, name |-> name]

\* ProgramAdmin.get_first_mapping_key: the first key of the sorted mapping
\* keys; IndexError when there is no mapping account
get_first_mapping_key(mapping_accounts) ==
    LET sorted == sort_mapping_account_keys(mapping_accounts)
    IN  IF sorted.tag = "raise" THEN sorted
        ELSE IF sorted.value = <<>> THEN Raise("IndexError", "list index out of range")
        ELSE Return(sorted.value[1])

\* ProgramAdmin.get_mapping_account: the fetched account with this key
get_mapping_account(mapping_accounts, key) ==
    IF \E i \in 1..Len(mapping_accounts) : mapping_accounts[i].public_key = key
    THEN Return(mapping_accounts[CHOOSE i \in 1..Len(mapping_accounts) :
                                    mapping_accounts[i].public_key = key])
    ELSE Raise("KeyError", "mapping account")

\* the loop over reference_products.items() that fills jump_symbols
RECURSIVE JumpSymbols(_, _, _)
JumpSymbols(reference_products, i, jump_symbols) ==
    IF i > Len(reference_products) THEN jump_symbols
    ELSE JumpSymbols(reference_products, i + 1,
                     DictSet(jump_symbols, reference_products[i].symbol,
                             reference_products[i].jump_symbol))

\* the links of one product, with the price link made whatever the first
\* price key is
ProductLinksAlways(symlinks, product_key, product_account, jump_symbol) ==
    symlinks \o << Symlink(product_key, Alias("product", jump_symbol)),
                   Symlink(product_account.first_price_account_key,
                           Alias("price", jump_symbol)) >>

\* the links of one product: product_<jump symbol>, and price_<jump symbol>
\* when the first price key is not zero
ProductLinks(symlinks, product_key, product_account, jump_symbol) ==
    LET linked == Append(symlinks, Symlink(product_key, Alias("product", jump_symbol)))
    IN  IF product_account.first_price_account_key # ZeroKey
        THEN Append(linked, Symlink(product_account.first_price_account_key,
                                    Alias("price", jump_symbol)))
        ELSE linked

\* the loop over mapping_account.data.product_account_keys from product i on;
\* jump_symbols[symbol] raises KeyError for a symbol the reference lacks
RECURSIVE LinkProducts(_, _, _, _, _)
LinkProducts(product_keys, i, product_accounts, jump_symbols, symlinks) ==
    IF i > Len(product_keys) THEN Return(symlinks)
    ELSE LET product_key == product_keys[i]
             product_account == product_accounts[product_key]
             symbol == SymbolOf(product_key)
         IN  IF symbol \notin DOMAIN jump_symbols
             THEN Raise("KeyError", symbol)
             ELSE LinkProducts(product_keys, i + 1, product_accounts, jump_symbols,
                      ProductLinks(symlinks, product_key, product_account,
                                   jump_symbols[symbol]))

InitRestoreLinks ==
    /\ pc = "call"
    /\ fn = "restore_links"
    /\ args \in { [program |-> a, reference_products |-> r] :
                    a \in ProgramAccounts, r \in ReferenceProducts }
    /\ rpc = NoRpc
    /\ locals = NoLocals
    /\ ret = Pending

\* restore_links up to its loop: jump_symbols, the refresh, the first key
RestoreLinksEnter ==
    /\ pc = "call"
    /\ fn = "restore_links"
    /\ LET first == get_first_mapping_key(args.program.mapping_accounts)
       IN  IF first.tag = "raise"
           THEN /\ ret' = IF first.error = "IndexError"
                          THEN Raise("SystemExit", "Program has no mapping accounts")
                          ELSE first
                /\ pc' = "return"
                /\ UNCHANGED locals
           ELSE /\ locals' = [jump_symbols |->
                                 JumpSymbols(args.reference_products, 1, EmptyDict),
                              mapping_account_counter |-> 0,
                              mapping_key |-> first.value,
                              symlinks |-> <<>>]
                /\ pc' = "walk"
                /\ UNCHANGED ret
    /\ UNCHANGED <<fn, args, rpc>>

\* one run of the body of while mapping_key != PublicKey(0)
RestoreLinksVisit ==
    /\ pc = "walk"
    /\ fn = "restore_links"
    /\ locals.mapping_key # ZeroKey
    /\ LET mapping_account ==
               get_mapping_account(args.program.mapping_accounts, locals.mapping_key)
           mapping_link ==
               Symlink(locals.mapping_key,
                       Alias("mapping", DecimalString(locals.mapping_account_counter)))
           linked ==
               LinkProducts(mapping_account.value.product_account_keys, 1,
                            args.program.product_accounts, locals.jump_symbols,
                            Append(locals.symlinks, mapping_link))
       IN  IF mapping_account.tag = "raise"
           THEN /\ ret' = mapping_account
                /\ pc' = "return"
                /\ UNCHANGED locals
           ELSE IF linked.tag = "raise"
           THEN /\ ret' = linked
                /\ pc' = "return"
                /\ locals' = [locals EXCEPT !.symlinks = Append(@, mapping_link)]
           ELSE /\ locals' = [locals EXCEPT
                                 !.symlinks = linked.value,
                                 !.mapping_key =
                                     mapping_account.value.next_mapping_account_key,
                                 !.mapping_account_counter = @ + 1]
                /\ UNCHANGED <<pc, ret>>
    /\ UNCHANGED <<fn, args, rpc>>

\* mapping_key is PublicKey(0): the loop and the command end
RestoreLinksLeave ==
    /\ pc = "walk"
    /\ fn = "restore_links"
    /\ locals.mapping_key = ZeroKey
    /\ ret' = Return("None")
    /\ pc' = "return"
    /\ UNCHANGED <<fn, args, rpc, locals>>

InitListAccounts ==
    /\ pc = "call"
    /\ fn = "list_accounts"
    /\ args \in { [program |-> a] : a \in ProgramAccounts }
    /\ rpc = NoRpc
    /\ locals = NoLocals
    /\ ret = Pending

\* list_accounts up to its loop
ListAccountsEnter ==
    /\ pc = "call"
    /\ fn = "list_accounts"
    /\ LET first == get_first_mapping_key(args.program.mapping_accounts)
       IN  IF first.tag = "raise"
           THEN /\ ret' = IF first.error = "IndexError"
                          THEN Raise("SystemExit", "Program has no mapping accounts")
                          ELSE first
                /\ pc' = "return"
                /\ UNCHANGED locals
           ELSE /\ locals' = [mapping_key |-> first.value, printed |-> <<>>]
                /\ pc' = "walk"
                /\ UNCHANGED ret
    /\ UNCHANGED <<fn, args, rpc>>

\* the lines printed for the products of one mapping account from product i
\* on: the product's symbol, and its first price key when that is not zero
\* (the lines of the price components are left out)
RECURSIVE ProductLines(_, _, _)
ProductLines(product_keys, i, product_accounts) ==
    IF i > Len(product_keys) THEN <<>>
    ELSE LET price_key == product_accounts[product_keys[i]].first_price_account_key
         IN  << [line |-> "Product", symbol |-> SymbolOf(product_keys[i])] >>
             \o (IF price_key # ZeroKey
                 THEN << [line |-> "Price", public_key |-> price_key] >>
                 ELSE <<>>)
             \o ProductLines(product_keys, i + 1, product_accounts)

\* one run of the body of while mapping_key != PublicKey(0)
ListAccountsVisit ==
    /\ pc = "walk"
    /\ fn = "list_accounts"
    /\ locals.mapping_key # ZeroKey
    /\ LET mapping_account ==
               get_mapping_account(args.program.mapping_accounts, locals.mapping_key)
       IN  IF mapping_account.tag = "raise"
           THEN /\ ret' = mapping_account
                /\ pc' = "return"
                /\ UNCHANGED locals
           ELSE /\ locals' =
                      [mapping_key |-> mapping_account.value.next_mapping_account_key,
                       printed |->
                           Append(locals.printed,
                                  [line |-> "Mapping",
                                   public_key |-> mapping_account.value.public_key])
                           \o ProductLines(mapping_account.value.product_account_keys, 1,
                                          args.program.product_accounts)]
                /\ UNCHANGED <<pc, ret>>
    /\ UNCHANGED <<fn, args, rpc>>

ListAccountsLeave ==
    /\ pc = "walk"
    /\ fn = "list_accounts"
    /\ locals.mapping_key = ZeroKey
    /\ ret' = Return("None")
    /\ pc' = "return"
    /\ UNCHANGED <<fn, args, rpc, locals>>

InitWalk == InitRestoreLinks \/ InitListAccounts

NextWalk ==
    \/ RestoreLinksEnter
    \/ RestoreLinksVisit
    \/ RestoreLinksLeave
    \/ ListAccountsEnter
    \/ ListAccountsVisit
    \/ ListAccountsLeave

\* the interpreter runs the command on, one step after the other
SpecWalk == InitWalk /\ [][NextWalk]_vars /\ WF_vars(NextWalk)

Restored == pc = "return" /\ fn = "restore_links"

Listed == pc = "return" /\ fn = "list_accounts"

\* the command walks an acyclic chain of mapping accounts ending in zero
WalksChain ==
    /\ fn \in {"restore_links", "list_accounts"}
    /\ ValidChain(args.program.mapping_accounts)

\* the products the mapping accounts list
ListedProducts ==
    LET accounts == args.program.mapping_accounts
    IN  { p \in ProductKeys :
            \E i \in 1..Len(accounts) :
                \E j \in 1..Len(accounts[i].product_account_keys) :
                    accounts[i].product_account_keys[j] = p }

ReferenceSymbols ==
    { args.reference_products[i].symbol : i \in 1..Len(args.reference_products) }

\* the symbol of every listed product is the symbol of a reference product
SymbolsKnown == \A p \in ListedProducts : SymbolOf(p) \in ReferenceSymbols

\* the jump symbol of the last reference product with the symbol of product p
JumpSymbolOf(p) ==
    LET items == args.reference_products
        last == CHOOSE i \in 1..Len(items) :
                    /\ items[i].symbol = SymbolOf(p)
                    /\ \A j \in (i + 1)..Len(items) : items[j].symbol # SymbolOf(p)
    IN  items[last].jump_symbol

\* the positions of the links whose name starts with prefix
LinksNamed(prefix) ==
    { i \in 1..Len(locals.symlinks) : locals.symlinks[i].name.prefix = prefix }

\* the walk ended at the zero key having linked every mapping account once in
\* list order as mapping_0, mapping_1, ..., every listed product as
\* product_<jump symbol>, and the first price account of exactly the products
\* that have one as price_<jump symbol>
LinkedAsWalked ==
    LET accounts == args.program.mapping_accounts
        mapped == SelectSeq(locals.symlinks, LAMBDA l : l.name.prefix = "mapping")
    IN  /\ ret = Return("None")
        /\ locals.mapping_key = ZeroKey
        /\ locals.mapping_account_counter = Len(accounts)
        /\ TraversalOrder(accounts, [i \in 1..Len(mapped) |-> mapped[i].key])
        /\ \A i \in 1..Len(mapped) :
              mapped[i].name = Alias("mapping", DecimalString(i - 1))
        /\ Cardinality(LinksNamed("product")) = Cardinality(ListedProducts)
        /\ \A p \in ListedProducts :
              LET price_key == args.program.product_accounts[p].first_price_account_key
              IN  /\ \E i \in LinksNamed("product") :
                        locals.symlinks[i] =
                            Symlink(p, Alias("product", JumpSymbolOf(p)))
                  /\ price_key # ZeroKey =>
                        \E i \in LinksNamed("price") :
                            locals.symlinks[i] =
                                Symlink(price_key, Alias("price", JumpSymbolOf(p)))
        /\ Cardinality(LinksNamed("price")) =
              Cardinality({ p \in ListedProducts :
                  args.program.product_accounts[p].first_price_account_key # ZeroKey })

\* the Mapping lines were printed for every mapping account once, in list order
PrintedAsWalked ==
    LET accounts == args.program.mapping_accounts
        mapped == SelectSeq(locals.printed, LAMBDA l : l.line = "Mapping")
    IN  /\ ret = Return("None")
        /\ locals.mapping_key = ZeroKey
        /\ TraversalOrder(accounts, [i \in 1..Len(mapped) |-> mapped[i].public_key])

----------------------------------------------------------------------------
(* Claims about the walk over the mapping list *)

----------------------------------------------------------------------------
(* All of util.py: one call of any of its functions *)

Init ==
    \/ InitSort
    \/ InitOverrides
    \/ InitSigners
    \/ InitMetadata
    \/ InitBlockhash
    \/ InitWalk

Next ==
    \/ SortMappingAccountKeys
    \/ NextSortLoop
    \/ ApplyOverrides
    \/ GetActualSigners
    \/ EncodeProductMetadata
    \/ NextBlockhash
    \/ NextWalk

Spec == Init /\ [][Next]_vars

====
